---- MODULE Spec2Model ----
(***************************************************************************)
(* Recurring-transaction engine of BurnWise: due-date computation,         *)
(* catch-up processing of due occurrences, per-occurrence skip/modify      *)
(* overrides, as implemented by RecurringTransactionService, the           *)
(* RecurringTransaction model and RecurringTransactionRepository.          *)
(*                                                                         *)
(* Time is counted in ticks: TicksPerDay ticks to a calendar day, days     *)
(* numbered from 1970-01-01.  The zero time.Time and a nil *time.Time are  *)
(* both written NoTime.                                                    *)
(***************************************************************************)
EXTENDS Integers, Sequences, FiniteSets, TLC

\* ------------------------------------------------------------------ bounds
MaxItems == 2        \* recurring transactions ever created
MaxOverrides == 1    \* rows of the occurrence table
MaxFaults == 1       \* calls that meet a failing collaborator, and crashes
MaxEdited == 1       \* recurring transactions created where they are edited
MaxWrites == 2       \* SkipOccurrence/ModifyOccurrence calls where writes repeat
MaxFrequencyValue == 3   \* largest FrequencyValue of the due-date computation
MaxSteps == 3        \* successive applications of CalculateNextDueDate
MaxIterations == 3   \* iterations of one catch-up loop that handle the same date
TicksPerDay == 2     \* time-of-day resolution of a timestamp

NoTime == 0
NilAmount == -1
NilString == "<nil>"

\* ------------------------------------------------- calendar (time.AddDate)
DaysFromCivil(y, m, d) ==
    LET yy  == IF m <= 2 THEN y - 1 ELSE y
        era == yy \div 400
        yoe == yy - era * 400
        mp  == IF m > 2 THEN m - 3 ELSE m + 9
        doy == (153 * mp + 2) \div 5 + d - 1
        doe == yoe * 365 + yoe \div 4 - yoe \div 100 + doy
    IN  era * 146097 + doe - 719468

CivilFromDays(z) ==
    LET zz  == z + 719468
        era == zz \div 146097
        doe == zz - era * 146097
        yoe == (doe - doe \div 1460 + doe \div 36524 - doe \div 146096) \div 365
        doy == doe - (365 * yoe + yoe \div 4 - yoe \div 100)
        mp  == (5 * doy + 2) \div 153
        d   == doy - (153 * mp + 2) \div 5 + 1
        m   == IF mp < 10 THEN mp + 3 ELSE mp - 9
        y   == yoe + era * 400 + (IF m <= 2 THEN 1 ELSE 0)
    IN  [y |-> y, m |-> m, d |-> d]

\* t.AddDate(years, months, days): the civil date is shifted field by field
\* and then normalised (Jan 31 + 1 month = "Feb 31" = Mar 2 or 3); the
\* time of day is kept.
AddDate(t, years, months, days) ==
    LET c  == CivilFromDays(t \div TicksPerDay)
        mt == (c.y + years) * 12 + (c.m - 1) + months
        ny == mt \div 12
        nm == (mt % 12) + 1
        nd == DaysFromCivil(ny, nm, 1) + (c.d - 1) + days
    IN  nd * TicksPerDay + (t % TicksPerDay)

\* SQL DATE(t): the calendar day of a timestamp
DateOf(t) == t \div TicksPerDay

At(y, m, d, tod) == DaysFromCivil(y, m, d) * TicksPerDay + tod

\* ------------------------------------------------------- input alphabets
\* what a recurring transaction is about: an expense in USD, an income in EUR
ProfileChoices ==
    {[type |-> "expense", amount |-> 100, currency |-> "USD", categoryId |-> 1,
      description |-> "rent"],
     [type |-> "income", amount |-> 300, currency |-> "EUR", categoryId |-> 2,
      description |-> "salary"]}
ScheduleChoices ==
    {[frequency |-> "weekly", frequencyValue |-> 2],
     [frequency |-> "monthly", frequencyValue |-> 1]}
StartChoices == {At(2024, 1, 31, 1)}
EndChoices == {NoTime, At(2024, 2, 14, 0)}
NextDueChoices == {NoTime}
AsOfChoices == {At(2024, 2, 14, 0), At(2024, 3, 2, 1)}
OverrideDateChoices == {At(2024, 1, 31, 0), At(2024, 2, 14, 0)}
ModifyChoices ==
    {[amount |-> 250, description |-> NilString],
     [amount |-> NilAmount, description |-> "bonus"],
     [amount |-> 250, description |-> "bonus"],
     [amount |-> 0, description |-> NilString]}
Faults == {"none", "getdue", "lookup", "convert", "create", "update"}

\* the recurring transactions of the pause/resume/delete and projection
\* scenarios: two monthly ones started six months before now and due now,
\* and two fortnightly ones that are overdue
LifeChoices ==
    {[type |-> "income", amount |-> 5000, currency |-> "USD", categoryId |-> 2,
      description |-> "salary", frequency |-> "monthly", frequencyValue |-> 1,
      startDate |-> At(2023, 9, 2, 1), endDate |-> NoTime,
      nextDueDate |-> At(2024, 3, 2, 1)],
     [type |-> "expense", amount |-> 1500, currency |-> "USD", categoryId |-> 1,
      description |-> "rent", frequency |-> "monthly", frequencyValue |-> 1,
      startDate |-> At(2023, 9, 2, 1), endDate |-> NoTime,
      nextDueDate |-> At(2024, 3, 2, 1)],
     [type |-> "expense", amount |-> 100, currency |-> "USD", categoryId |-> 1,
      description |-> "gym", frequency |-> "weekly", frequencyValue |-> 2,
      startDate |-> At(2024, 1, 31, 1), endDate |-> NoTime,
      nextDueDate |-> At(2024, 2, 10, 0)],
     [type |-> "income", amount |-> 300, currency |-> "EUR", categoryId |-> 2,
      description |-> "lessons", frequency |-> "weekly", frequencyValue |-> 2,
      startDate |-> At(2024, 1, 31, 1), endDate |-> At(2024, 3, 16, 1),
      nextDueDate |-> NoTime]}
NowChoices == {At(2024, 3, 16, 1)}

\* what Create is called with where candidates are also rejected: the
\* fortnightly items above, and the first of them with one field changed
GymChoice ==
    [type |-> "expense", amount |-> 100, currency |-> "USD", categoryId |-> 1,
     description |-> "gym", frequency |-> "weekly", frequencyValue |-> 2,
     startDate |-> At(2024, 1, 31, 1), endDate |-> NoTime,
     nextDueDate |-> At(2024, 2, 10, 0)]
CreateChoices ==
    {c \in LifeChoices : c.frequency = "weekly"} \cup
    {[GymChoice EXCEPT !.amount = 0],
     [GymChoice EXCEPT !.frequency = "hourly"],
     [GymChoice EXCEPT !.frequencyValue = 0],
     [GymChoice EXCEPT !.endDate = At(2024, 1, 31, 1)],
     [GymChoice EXCEPT !.nextDueDate = At(2024, 1, 10, 0)],
     [GymChoice EXCEPT !.nextDueDate = NoTime]}

\* what the edit form changes before it calls Update: Keep leaves the field
\* as it was loaded
Keep == -2
EditChoices ==
    {[amount |-> Keep, frequency |-> "keep", frequencyValue |-> Keep, endDate |-> Keep],
     [amount |-> 120,  frequency |-> "keep", frequencyValue |-> Keep, endDate |-> Keep],
     [amount |-> Keep, frequency |-> "daily", frequencyValue |-> 1, endDate |-> Keep],
     [amount |-> 0,    frequency |-> "keep", frequencyValue |-> Keep, endDate |-> Keep],
     [amount |-> Keep, frequency |-> "hourly", frequencyValue |-> Keep, endDate |-> Keep],
     [amount |-> Keep, frequency |-> "keep", frequencyValue |-> 0, endDate |-> Keep],
     [amount |-> Keep, frequency |-> "keep", frequencyValue |-> Keep,
      endDate |-> At(2024, 1, 31, 1)]}

\* the days GetUpcoming looks ahead: a week, and as far as the occurrence
\* of 2024-03-13
DaysChoices == {7, 11}

\* the periods of CalculateProjectedAmount(startDate, endDate): three months
\* from the initial now, and a short period that starts on an occurrence
ProjectionChoices ==
    {[startDate |-> At(2024, 3, 2, 1), endDate |-> AddDate(At(2024, 3, 2, 1), 0, 3, 0)],
     [startDate |-> At(2024, 2, 24, 0), endDate |-> At(2024, 3, 16, 0)]}

\* the inputs of the due-date computation: month ends, a leap day, a year
\* end, at two times of the day
Frequencies == {"daily", "weekly", "monthly", "yearly"}
DateChoices ==
    {At(2024, 1, 31, 1), At(2024, 2, 29, 0), At(2023, 2, 28, 1), At(2023, 12, 31, 0),
     At(2024, 3, 31, 1), At(2024, 8, 30, 0), At(2024, 10, 15, 1), At(2023, 1, 30, 0)}

\* the overrides written where a key is written more than once
RewriteDateChoices == {At(2024, 1, 31, 0)}
RewriteChoices ==
    {[amount |-> 250, description |-> NilString],
     [amount |-> NilAmount, description |-> "bonus"]}
LifeOverrideDateChoices == {At(2024, 2, 24, 1)}

VARIABLES
    items,          \* table recurring_transactions: row i has primary key i
    occurrences,    \* table recurring_transaction_occurrences, in insert order
    transactions,   \* table transactions, in insert order
    now,            \* time.Now()
    fault,          \* which collaborator call fails during the running call
    faultsUsed,     \* calls that met a failing collaborator, and crashes, so far
    pc,             \* position of ProcessDueTransactions: idle, loop, update, done
    asOf,           \* argument of the running ProcessDueTransactions
    dueTransactions,\* rows loaded by GetDue, in result order
    idx,            \* index of the item of the outer loop
    rt,             \* in-memory copy of dueTransactions[idx] being processed
    processed,      \* local counter of ProcessDueTransactions
    result,         \* (processed, err) of the last return
    log,            \* error lines printed by the running/last batch
    handled,        \* per item, the occurrence times handled by the batch
    last,           \* what the latest inner-loop iteration did
    txBefore,       \* Len(transactions) when the batch started
    failed,         \* per item, its occurrence that failed and awaits a retry
    started,        \* ProcessDueTransactions has been called at least once
    repeat,         \* the running call repeats the call that has just returned
    op,             \* the latest call other than the batch, and what it did
    mark            \* per item, its latest Pause or Resume and the tables then

vars == <<items, occurrences, transactions, now, fault, faultsUsed, pc, asOf,
          dueTransactions, idx, rt, processed, result, log, handled, last,
          txBefore, failed, started, repeat, op, mark>>

batchVars == <<fault, pc, asOf, dueTransactions, idx, rt, processed, result, log,
               handled, last, txBefore, repeat>>

NoRow == [id |-> 0]
NoLast == [kind |-> "-"]
NoFailure == [date |-> NoTime, asOf |-> NoTime, resolved |-> FALSE]

lifeVars == <<op, mark>>
NoOp == [kind |-> "-"]
NoMark == [kind |-> "-", at |-> NoTime, txLen |-> 0, nextDueDate |-> NoTime]

\* ---------------------------------------------------------------- helpers
RECURSIVE SumLen(_, _)
SumLen(f, S) ==
    IF S = {} THEN 0
    ELSE LET x == CHOOSE y \in S : TRUE IN Len(f[x]) + SumLen(f, S \ {x})

Range(s) == {s[i] : i \in 1..Len(s)}

\* ------------------------------------------------------------- the models
\* RecurringTransaction.Validate: the error, or "" with the normalised row
RecurringValidate(r) ==
    LET r1 == IF r.currency = "" THEN [r EXCEPT !.currency = "USD"] ELSE r
        r2 == IF r1.frequencyValue < 1 THEN [r1 EXCEPT !.frequencyValue = 1] ELSE r1
        r3 == IF r2.startDate = NoTime THEN [r2 EXCEPT !.startDate = now] ELSE r2
        r4 == IF r3.nextDueDate = NoTime THEN [r3 EXCEPT !.nextDueDate = r3.startDate] ELSE r3
    IN  IF r.amount <= 0 THEN [err |-> "amount must be greater than 0", row |-> r]
        ELSE IF r.type \notin {"income", "expense"} THEN [err |-> "invalid transaction type", row |-> r1]
        ELSE IF r.categoryId = 0 THEN [err |-> "category is required", row |-> r1]
        ELSE IF r.frequency \notin {"daily", "weekly", "monthly", "yearly"}
             THEN [err |-> "invalid frequency", row |-> r2]
        ELSE IF r3.endDate # NoTime /\ ~(r3.endDate > r3.startDate)
             THEN [err |-> "end date must be after start date", row |-> r3]
        ELSE [err |-> "", row |-> r4]

CalculateNextDueDate_NoYearly(r, from) ==
    CASE r.frequency = "daily"   -> AddDate(from, 0, 0, r.frequencyValue)
      [] r.frequency = "weekly"  -> AddDate(from, 0, 0, r.frequencyValue * 7)
      [] r.frequency = "monthly" -> AddDate(from, 0, r.frequencyValue, 0)
      [] OTHER -> from

CalculateNextDueDate(r, from) ==
    CASE r.frequency = "daily"   -> AddDate(from, 0, 0, r.frequencyValue)
      [] r.frequency = "weekly"  -> AddDate(from, 0, 0, r.frequencyValue * 7)
      [] r.frequency = "monthly" -> AddDate(from, 0, r.frequencyValue, 0)
      [] r.frequency = "yearly"  -> AddDate(from, r.frequencyValue, 0, 0)
      [] OTHER -> from

IsDue_Before(r, a) ==
    IF ~r.isActive THEN FALSE
    ELSE IF r.endDate # NoTime /\ a > r.endDate THEN FALSE
    ELSE r.nextDueDate < a

IsDue(r, a) ==
    IF ~r.isActive THEN FALSE
    ELSE IF r.endDate # NoTime /\ a > r.endDate THEN FALSE
    ELSE ~(r.nextDueDate > a)

ShouldDeactivate(r, a) ==
    IF r.endDate = NoTime THEN FALSE ELSE a > r.endDate

GenerateTransaction_NoDescription(r, date) ==
    [type |-> r.type, amount |-> r.amount, currency |-> r.currency,
     amountUSD |-> 0, categoryId |-> r.categoryId,
     description |-> "", date |-> date, rid |-> r.id]

GenerateTransaction(r, date) ==
    [type |-> r.type, amount |-> r.amount, currency |-> r.currency,
     amountUSD |-> 0, categoryId |-> r.categoryId,
     description |-> r.description, date |-> date, rid |-> r.id]

\* Transaction.Validate, run by the BeforeCreate hook of the transactions table
TransactionValidate(t) ==
    /\ t.type \in {"income", "expense", "transfer"}
    /\ t.amount > 0
    /\ t.currency \in {"USD", "EUR"}     \* len(Currency) = 3
    /\ t.categoryId # 0
    /\ t.date # NoTime

\* CurrencyService: units of the currency per USD
GetExchangeRate(currency) == IF currency = "EUR" THEN 2 ELSE 1

ConvertToUSD(amount, currency) ==
    IF currency = "USD" THEN [err |-> FALSE, value |-> amount]
    ELSE IF fault = "convert" THEN [err |-> TRUE, value |-> 0]
    ELSE [err |-> FALSE, value |-> amount \div GetExchangeRate(currency)]

\* ------------------------------------------------------------- repository
GetDueRows_IgnoreEndDate(a) ==
    {i \in 1..Len(items) :
        /\ ~items[i].deleted
        /\ items[i].isActive
        /\ items[i].nextDueDate <= a}

\* WHERE is_active AND next_due_date <= asOf AND (end_date IS NULL OR end_date >= asOf)
\* and, as for every query on a model with DeletedAt, deleted_at IS NULL
GetDueRows(a) ==
    {i \in 1..Len(items) :
        /\ ~items[i].deleted
        /\ items[i].isActive
        /\ items[i].nextDueDate <= a
        /\ (items[i].endDate = NoTime \/ items[i].endDate >= a)}

GetActiveRows == {i \in 1..Len(items) : ~items[i].deleted /\ items[i].isActive}

\* ORDER BY next_due_date ASC; rows with equal next_due_date come in the
\* order of the table scan, that is by primary key
OrderedByNextDue(S) ==
    CHOOSE s \in [1..Cardinality(S) -> S] :
        \A i, j \in 1..Cardinality(S) :
            i < j => \/ items[s[i]].nextDueDate < items[s[j]].nextDueDate
                     \/ /\ items[s[i]].nextDueDate = items[s[j]].nextDueDate
                        /\ s[i] < s[j]

OccurrenceMatches_AnyItem(id, date) ==
    {k \in 1..Len(occurrences) :
        DateOf(occurrences[k].date) = DateOf(date)}

\* GetOccurrence: First() of the rows of the item on the calendar day
OccurrenceMatches(id, date) ==
    {k \in 1..Len(occurrences) :
        /\ occurrences[k].rid = id
        /\ DateOf(occurrences[k].date) = DateOf(date)}

GetOccurrence_ExactTime(id, date) ==
    LET m == {k \in 1..Len(occurrences) :
                 occurrences[k].rid = id /\ occurrences[k].date = date}
    IN  IF m = {} THEN [action |-> "none"]
        ELSE occurrences[CHOOSE k \in m : \A j \in m : k <= j]

GetOccurrence(id, date) ==
    LET m == OccurrenceMatches(id, date)
    IN  IF m = {} THEN [action |-> "none"]
        ELSE occurrences[CHOOSE k \in m : \A j \in m : k <= j]

\* ----------------------------------------------------------------- Init
Init ==
    /\ items = <<>>
    /\ occurrences = <<>>
    /\ transactions = <<>>
    /\ now = At(2024, 3, 2, 1)
    /\ fault = "none"
    /\ faultsUsed = 0
    /\ pc = "idle"
    /\ asOf = NoTime
    /\ dueTransactions = <<>>
    /\ idx = 0
    /\ rt = NoRow
    /\ processed = 0
    /\ result = [count |-> 0, err |-> FALSE]
    /\ log = {}
    /\ handled = <<>>
    /\ last = NoLast
    /\ txBefore = 0
    /\ failed = <<>>
    /\ started = FALSE
    /\ repeat = FALSE
    /\ op = NoOp
    /\ mark = [i \in 1..MaxItems |-> NoMark]

\* the recurring transactions and their overrides are entered before the
\* first ProcessDueTransactions call
Setup == pc = "idle" /\ ~started

\* --------------------------------------------------------- service calls
\* RecurringTransactionService.Create; the table defaults is_active to true
Create(c) ==
    /\ Setup
    /\ Len(items) < MaxItems
    /\ LET v == RecurringValidate(c)
           r == [v.row EXCEPT !.id = Len(items) + 1, !.isActive = TRUE]
       IN  /\ v.err = ""
           /\ items' = Append(items, r)
    /\ failed' = Append(failed, NoFailure)
    /\ UNCHANGED <<occurrences, transactions, now, faultsUsed, started>>
    /\ UNCHANGED batchVars
    /\ op' = NoOp
    /\ UNCHANGED mark

Candidates ==
    {[id |-> 0, type |-> p.type, amount |-> p.amount, currency |-> p.currency,
      categoryId |-> p.categoryId, description |-> p.description,
      frequency |-> f.frequency, frequencyValue |-> f.frequencyValue,
      startDate |-> sd, endDate |-> ed,
      lastProcessed |-> NoTime, nextDueDate |-> nd, isActive |-> TRUE,
      deleted |-> FALSE] :
        p \in ProfileChoices, f \in ScheduleChoices, sd \in StartChoices,
        ed \in EndChoices, nd \in NextDueChoices}

LifeCandidates ==
    {[id |-> 0, type |-> c.type, amount |-> c.amount, currency |-> c.currency,
      categoryId |-> c.categoryId, description |-> c.description,
      frequency |-> c.frequency, frequencyValue |-> c.frequencyValue,
      startDate |-> c.startDate, endDate |-> c.endDate,
      lastProcessed |-> NoTime, nextDueDate |-> c.nextDueDate, isActive |-> TRUE,
      deleted |-> FALSE] : c \in LifeChoices}

SkipOccurrence(id, date) ==
    /\ Setup
    /\ occurrences' = Append(occurrences,
          [rid |-> id, date |-> date, action |-> "skip",
           modifiedAmount |-> NilAmount, modifiedDescription |-> NilString])
    /\ UNCHANGED <<items, transactions, now, faultsUsed, failed, started>>
    /\ UNCHANGED batchVars
    /\ op' = NoOp
    /\ UNCHANGED mark

ModifyOccurrence(id, date, amount, description) ==
    /\ Setup
    /\ occurrences' = Append(occurrences,
          [rid |-> id, date |-> date, action |-> "modify",
           modifiedAmount |-> amount, modifiedDescription |-> description])
    /\ UNCHANGED <<items, transactions, now, faultsUsed, failed, started>>
    /\ UNCHANGED batchVars
    /\ op' = NoOp
    /\ UNCHANGED mark

\* ------------------------------------------- ProcessDueTransactions(asOf)
\* entry: GetDue, then the first item of the outer loop
Begin(a, f) ==
    /\ fault' = f
    /\ started' = TRUE
    /\ asOf' = a
    /\ processed' = 0
    /\ log' = {}
    /\ last' = NoLast
    /\ handled' = [i \in 1..Len(items) |-> <<>>]
    /\ txBefore' = Len(transactions)
    /\ IF f = "getdue"
       THEN /\ dueTransactions' = <<>>
            /\ idx' = 0
            /\ rt' = NoRow
            /\ result' = [count |-> 0, err |-> TRUE]
            /\ pc' = "done"
       ELSE LET order == OrderedByNextDue(GetDueRows(a))
            IN  /\ dueTransactions' = [i \in 1..Len(order) |-> items[order[i]]]
                /\ IF Len(order) = 0
                   THEN /\ idx' = 0
                        /\ rt' = NoRow
                        /\ result' = [count |-> 0, err |-> FALSE]
                        /\ pc' = "done"
                   ELSE /\ idx' = 1
                        /\ rt' = items[order[1]]
                        /\ result' = result
                        /\ pc' = "loop"
    /\ op' = NoOp
    /\ UNCHANGED <<items, occurrences, transactions, now, failed, mark>>

\* a call in which collaborator f fails ("none": all work)
ProcessDueTransactions(a, f) ==
    /\ pc = "idle"
    /\ f # "none" => faultsUsed < MaxFaults
    /\ faultsUsed' = IF f = "none" THEN faultsUsed ELSE faultsUsed + 1
    /\ repeat' = FALSE
    /\ Begin(a, f)

\* the caller's next call, made with the same argument right after the
\* return, nothing having changed in between
ProcessDueTransactionsAgain ==
    /\ pc = "done"
    /\ ~repeat
    /\ repeat' = TRUE
    /\ faultsUsed' = faultsUsed
    /\ Begin(asOf, fault)

processRecurringTransaction_IgnoreSkip(r, dueDate) ==
    LET occurrence == GetOccurrence(r.id, dueDate)
        tx0  == GenerateTransaction(r, dueDate)
        tx1  == IF occurrence.action = "modify" /\ occurrence.modifiedAmount # NilAmount
                THEN [tx0 EXCEPT !.amount = occurrence.modifiedAmount] ELSE tx0
        tx2  == IF occurrence.action = "modify" /\ occurrence.modifiedDescription # NilString
                THEN [tx1 EXCEPT !.description = occurrence.modifiedDescription] ELSE tx1
        conv == ConvertToUSD(tx2.amount, tx2.currency)
        tx   == [tx2 EXCEPT !.amountUSD = conv.value]
    IN  IF fault = "lookup"
        THEN [err |-> "lookup", txs |-> <<>>, rt |-> r, action |-> "unknown"]
        ELSE IF conv.err
        THEN [err |-> "convert", txs |-> <<>>, rt |-> r, action |-> occurrence.action]
        ELSE IF fault = "create" \/ ~TransactionValidate(tx)
        THEN [err |-> "create", txs |-> <<>>, rt |-> r, action |-> occurrence.action]
        ELSE [err |-> "", txs |-> <<tx>>, rt |-> [r EXCEPT !.lastProcessed = now],
              action |-> occurrence.action]

\* processRecurringTransaction(rt, dueDate): the error ("" for nil), the
\* transactions inserted and rt afterwards
processRecurringTransaction(r, dueDate) ==
    LET occurrence == GetOccurrence(r.id, dueDate)
        tx0  == GenerateTransaction(r, dueDate)
        tx1  == IF occurrence.action = "modify" /\ occurrence.modifiedAmount # NilAmount
                THEN [tx0 EXCEPT !.amount = occurrence.modifiedAmount] ELSE tx0
        tx2  == IF occurrence.action = "modify" /\ occurrence.modifiedDescription # NilString
                THEN [tx1 EXCEPT !.description = occurrence.modifiedDescription] ELSE tx1
        conv == ConvertToUSD(tx2.amount, tx2.currency)
        tx   == [tx2 EXCEPT !.amountUSD = conv.value]
    IN  IF fault = "lookup"
        THEN [err |-> "lookup", txs |-> <<>>, rt |-> r, action |-> "unknown"]
        ELSE IF occurrence.action = "skip"
        THEN [err |-> "", txs |-> <<>>, rt |-> r, action |-> "skip"]
        ELSE IF conv.err
        THEN [err |-> "convert", txs |-> <<>>, rt |-> r, action |-> occurrence.action]
        ELSE IF fault = "create" \/ ~TransactionValidate(tx)
        THEN [err |-> "create", txs |-> <<>>, rt |-> r, action |-> occurrence.action]
        ELSE [err |-> "", txs |-> <<tx>>, rt |-> [r EXCEPT !.lastProcessed = now],
              action |-> occurrence.action]

AfterOccurrence_DeactivateOnError(p, a) ==
    IF p.err # "" THEN [p.rt EXCEPT !.isActive = FALSE]
    ELSE LET r1 == [p.rt EXCEPT !.nextDueDate =
                       CalculateNextDueDate(p.rt, p.rt.nextDueDate)]
         IN  IF ShouldDeactivate(r1, a) THEN [r1 EXCEPT !.isActive = FALSE] ELSE r1

\* rt after an iteration whose processRecurringTransaction returned p: on an
\* error the loop breaks, otherwise NextDueDate advances and the end date
\* is looked at
AfterOccurrence(p, a) ==
    IF p.err # "" THEN p.rt
    ELSE LET r1 == [p.rt EXCEPT !.nextDueDate =
                       CalculateNextDueDate(p.rt, p.rt.nextDueDate)]
         IN  IF ShouldDeactivate(r1, a) THEN [r1 EXCEPT !.isActive = FALSE] ELSE r1

\* one iteration of "for rt.IsDue(asOf)"
ProcessOccurrence ==
    /\ pc = "loop"
    /\ IsDue(rt, asOf)
    /\ LET dueDate == rt.nextDueDate
           p == processRecurringTransaction(rt, dueDate)
       IN  /\ transactions' = transactions \o p.txs
           /\ rt' = AfterOccurrence(p, asOf)
           /\ IF p.err # ""
              THEN /\ log' = log \cup {[id |-> rt.id, kind |-> p.err, date |-> dueDate]}
                   /\ pc' = "update"
                   /\ processed' = processed
                   /\ handled' = handled
                   /\ failed' = [failed EXCEPT ![rt.id] =
                                    [date |-> dueDate, asOf |-> asOf, resolved |-> FALSE]]
              ELSE /\ log' = log
                   /\ pc' = IF ShouldDeactivate(rt', asOf) THEN "update" ELSE "loop"
                   /\ processed' = processed + 1
                   /\ handled' = [handled EXCEPT ![rt.id] = Append(@, dueDate)]
                   /\ failed' = IF failed[rt.id].date = dueDate
                                THEN [failed EXCEPT ![rt.id].resolved = TRUE]
                                ELSE failed
           /\ last' = [kind |-> IF p.err # "" THEN "failed" ELSE p.action,
                       id |-> rt.id, date |-> dueDate,
                       txLenBefore |-> Len(transactions),
                       txLenAfter |-> Len(transactions'),
                       nextDueAfter |-> rt'.nextDueDate,
                       processedBefore |-> processed,
                       processedAfter |-> processed']
    /\ UNCHANGED <<items, occurrences, now, fault, faultsUsed, asOf,
                   dueTransactions, idx, result, txBefore, started, repeat>>
    /\ UNCHANGED lifeVars

UpdateItem_ReturnOnFailure ==
    /\ \/ pc = "update"
       \/ pc = "loop" /\ ~IsDue(rt, asOf)
    /\ LET v == RecurringValidate(rt)
       IN  IF fault = "update" \/ v.err # ""
           THEN /\ log' = log \cup {[id |-> rt.id, kind |-> "update", date |-> rt.nextDueDate]}
                /\ items' = items
           ELSE /\ items' = [items EXCEPT ![rt.id] = v.row]
                /\ log' = log
    /\ IF idx < Len(dueTransactions) /\ log' = {}
       THEN /\ idx' = idx + 1
            /\ rt' = dueTransactions[idx + 1]
            /\ pc' = "loop"
            /\ result' = result
       ELSE /\ idx' = idx + 1
            /\ rt' = NoRow
            /\ pc' = "done"
            /\ result' = [count |-> processed, err |-> FALSE]
    /\ UNCHANGED <<occurrences, transactions, now, fault, faultsUsed, asOf,
                   dueTransactions, processed, handled, last, txBefore, failed,
                   started, repeat>>
    /\ UNCHANGED lifeVars

\* s.repo.Update(rt) after the inner loop (db.Save runs BeforeUpdate), then
\* the next item of the outer loop or the return value
UpdateItem ==
    /\ \/ pc = "update"
       \/ pc = "loop" /\ ~IsDue(rt, asOf)
    /\ LET v == RecurringValidate(rt)
       IN  IF fault = "update" \/ v.err # ""
           THEN /\ log' = log \cup {[id |-> rt.id, kind |-> "update", date |-> rt.nextDueDate]}
                /\ items' = items
           ELSE /\ items' = [items EXCEPT ![rt.id] = v.row]
                /\ log' = log
    /\ IF idx < Len(dueTransactions)
       THEN /\ idx' = idx + 1
            /\ rt' = dueTransactions[idx + 1]
            /\ pc' = "loop"
            /\ result' = result
       ELSE /\ idx' = idx + 1
            /\ rt' = NoRow
            /\ pc' = "done"
            /\ result' = [count |-> processed, err |-> FALSE]
    /\ UNCHANGED <<occurrences, transactions, now, fault, faultsUsed, asOf,
                   dueTransactions, processed, handled, last, txBefore, failed,
                   started, repeat>>
    /\ UNCHANGED lifeVars

\* what is left of the call once it has returned
Forget ==
    /\ fault' = "none"
    /\ result' = [count |-> 0, err |-> FALSE]
    /\ pc' = "idle"
    /\ asOf' = NoTime
    /\ dueTransactions' = <<>>
    /\ idx' = 0
    /\ rt' = NoRow
    /\ processed' = 0
    /\ log' = {}
    /\ handled' = <<>>
    /\ last' = NoLast
    /\ txBefore' = 0
    /\ repeat' = FALSE
    /\ failed' = [i \in 1..Len(failed) |->
                    IF failed[i].resolved THEN NoFailure ELSE failed[i]]

\* the caller receives (processed, err)
Return ==
    /\ pc = "done"
    /\ Forget
    /\ UNCHANGED <<items, occurrences, transactions, now, faultsUsed, started>>
    /\ UNCHANGED lifeVars

\* the process dies inside ProcessDueTransactions; the tables survive
Crash ==
    /\ pc \in {"loop", "update"}
    /\ faultsUsed < MaxFaults
    /\ faultsUsed' = faultsUsed + 1
    /\ Forget
    /\ UNCHANGED <<items, occurrences, transactions, now, started>>
    /\ UNCHANGED lifeVars

\* ------------------------------------------------ pause, resume, delete
\* time passes between two calls
Tick(t) ==
    /\ pc = "idle"
    /\ t > now
    /\ now' = t
    /\ UNCHANGED <<items, occurrences, transactions, faultsUsed, failed, started>>
    /\ UNCHANGED batchVars
    /\ UNCHANGED lifeVars

Exists(id) == id \in 1..Len(items) /\ ~items[id].deleted

\* repo.GetByID: First(&rt, id) fails with gorm.ErrRecordNotFound when no
\* row that is not soft-deleted has the key
NotFound == "record not found"
GetByIDError(id) == IF Exists(id) THEN "" ELSE NotFound

\* the error a call on id returns ("" for nil): Pause returns the Error of
\* the UpdateColumn of repo.Deactivate and Delete that of repo.Deactivate
\* or of db.Delete, which is nil also when no row matched; Resume and
\* GetByID return the error of repo.GetByID
ReturnedError(kind, id) ==
    CASE kind = "pause"   -> ""
      [] kind = "delete"  -> ""
      [] kind = "resume"  -> GetByIDError(id)
      [] kind = "getbyid" -> GetByIDError(id)

\* what a call other than the batch found when it was made, and the error
\* it returned
Observed(kind, id) ==
    [kind |-> kind, id |-> id, items |-> items, occurrences |-> occurrences,
     transactions |-> transactions, now |-> now, err |-> ReturnedError(kind, id)]

Deactivate_AndRewind(id) ==
    IF Exists(id)
    THEN [items EXCEPT ![id].isActive = FALSE, ![id].nextDueDate = items[id].startDate]
    ELSE items

\* repo.Deactivate: UPDATE ... SET is_active = false WHERE id = ? (and
\* deleted_at IS NULL); the items table afterwards
Deactivate(id) ==
    IF Exists(id) THEN [items EXCEPT ![id].isActive = FALSE] ELSE items

Paused(id) ==
    [kind |-> "paused", at |-> now, txLen |-> Len(transactions),
     nextDueDate |-> items[id].nextDueDate]

Pause(id) ==
    /\ pc = "idle"
    /\ items' = Deactivate(id)
    /\ op' = Observed("pause", id)
    /\ mark' = IF Exists(id) THEN [mark EXCEPT ![id] = Paused(id)] ELSE mark
    /\ UNCHANGED <<occurrences, transactions, now, faultsUsed, failed, started>>
    /\ UNCHANGED batchVars

\* the loop of Resume: from d on until the date is not before n
RECURSIVE FirstNotBefore(_, _, _)
FirstNotBefore(r, d, n) ==
    IF d < n THEN FirstNotBefore(r, CalculateNextDueDate(r, d), n) ELSE d

ResumeNextDueDate_Keep(r, n) == r.nextDueDate

\* the NextDueDate Resume leaves when it runs at time n
ResumeNextDueDate(r, n) ==
    IF r.nextDueDate < n THEN FirstNotBefore(r, r.startDate, n) ELSE r.nextDueDate

Resumed(id) ==
    [kind |-> "resumed", at |-> now, txLen |-> Len(transactions),
     nextDueDate |-> items[id].nextDueDate]

\* Resume: GetByID, UpdateNextDueDate when NextDueDate is before now, Activate
Resume(id) ==
    /\ pc = "idle"
    /\ IF Exists(id)
       THEN /\ items' = [items EXCEPT
                            ![id].nextDueDate = ResumeNextDueDate(items[id], now),
                            ![id].isActive = TRUE]
            /\ mark' = [mark EXCEPT ![id] = Resumed(id)]
       ELSE UNCHANGED <<items, mark>>
    /\ op' = Observed("resume", id)
    /\ UNCHANGED <<occurrences, transactions, now, faultsUsed, failed, started>>
    /\ UNCHANGED batchVars

CountGeneratedTransactions_Zero(id) == 0

\* SELECT count(*) FROM transactions WHERE recurring_transaction_id = ?
CountGeneratedTransactions(id) ==
    Cardinality({k \in 1..Len(transactions) : transactions[k].rid = id})

\* repo.Delete: the soft delete of the row; the items table afterwards
SoftDelete(id) ==
    IF Exists(id) THEN [items EXCEPT ![id].deleted = TRUE] ELSE items

\* Delete: Deactivate when transactions were generated, repo.Delete otherwise
Delete(id) ==
    /\ pc = "idle"
    /\ IF CountGeneratedTransactions(id) > 0
       THEN /\ items' = Deactivate(id)
            /\ mark' = IF Exists(id) THEN [mark EXCEPT ![id] = Paused(id)] ELSE mark
       ELSE /\ items' = SoftDelete(id)
            /\ mark' = mark
    /\ op' = Observed("delete", id)
    /\ UNCHANGED <<occurrences, transactions, now, faultsUsed, failed, started>>
    /\ UNCHANGED batchVars

Next ==
    \/ \E c \in Candidates : Create(c)
    \/ \E id \in 1..Len(items), d \in OverrideDateChoices :
          Len(occurrences) < MaxOverrides /\ SkipOccurrence(id, d)
    \/ \E id \in 1..Len(items), d \in OverrideDateChoices, m \in ModifyChoices :
          Len(occurrences) < MaxOverrides /\ ModifyOccurrence(id, d, m.amount, m.description)
    \/ \E a \in AsOfChoices, f \in Faults : ProcessDueTransactions(a, f)
    \/ ProcessOccurrence
    \/ UpdateItem
    \/ Return

Spec == Init /\ [][Next]_vars

\* the same with a caller that repeats its call and with crashes
NextFull ==
    \/ Next
    \/ ProcessDueTransactionsAgain
    \/ Crash

SpecFull == Init /\ [][NextFull]_vars

\* the recurring transactions are paused, resumed and deleted between
\* batches that are run at the current time
NextLife ==
    \/ \E c \in LifeCandidates : Create(c)
    \/ \E id \in 1..Len(items), d \in LifeOverrideDateChoices :
          Len(occurrences) < MaxOverrides /\ SkipOccurrence(id, d)
    \/ \E t \in NowChoices : Tick(t)
    \/ \E id \in 1..Len(items) : Pause(id)
    \/ \E id \in 1..Len(items) : Resume(id)
    \/ \E id \in 1..Len(items) : Delete(id)
    \/ ProcessDueTransactions(now, "none")
    \/ ProcessOccurrence
    \/ UpdateItem
    \/ Return

SpecLife == Init /\ [][NextLife]_vars

\* overrides are written repeatedly, also for the same item and date,
\* before the batches
NextRewrite ==
    \/ \E c \in Candidates : Create(c)
    \/ \E id \in 1..Len(items), d \in RewriteDateChoices :
          Len(occurrences) < MaxWrites /\ SkipOccurrence(id, d)
    \/ \E id \in 1..Len(items), d \in RewriteDateChoices, m \in RewriteChoices :
          Len(occurrences) < MaxWrites /\ ModifyOccurrence(id, d, m.amount, m.description)
    \/ \E a \in AsOfChoices : ProcessDueTransactions(a, "none")
    \/ ProcessOccurrence
    \/ UpdateItem
    \/ Return

SpecRewrite == Init /\ [][NextRewrite]_vars

\* ------------------------------------------ Create, Update and GetByID
CreateCandidates ==
    {[id |-> 0, type |-> c.type, amount |-> c.amount, currency |-> c.currency,
      categoryId |-> c.categoryId, description |-> c.description,
      frequency |-> c.frequency, frequencyValue |-> c.frequencyValue,
      startDate |-> c.startDate, endDate |-> c.endDate,
      lastProcessed |-> NoTime, nextDueDate |-> c.nextDueDate, isActive |-> TRUE,
      deleted |-> FALSE] : c \in CreateChoices}

\* Create with its return value: rt.Validate(), NextDueDate = StartDate when
\* it is zero, repo.Create (whose BeforeCreate hook validates again)
CreateOrReject(c) ==
    /\ pc = "idle"
    /\ Len(items) < MaxItems
    /\ LET v == RecurringValidate(c)
       IN  /\ items' = IF v.err = ""
                       THEN Append(items, [v.row EXCEPT !.id = Len(items) + 1,
                                                        !.isActive = TRUE])
                       ELSE items
           /\ failed' = IF v.err = "" THEN Append(failed, NoFailure) ELSE failed
           /\ op' = [kind |-> "create", id |-> Len(items) + 1, candidate |-> c,
                     items |-> items, now |-> now, err |-> v.err]
    /\ UNCHANGED <<occurrences, transactions, now, faultsUsed, started, mark>>
    /\ UNCHANGED batchVars

\* the row the edit form passes to Update: the stored row with the edited
\* fields
Edited(r, e) ==
    [r EXCEPT !.amount = IF e.amount = Keep THEN @ ELSE e.amount,
              !.frequency = IF e.frequency = "keep" THEN @ ELSE e.frequency,
              !.frequencyValue = IF e.frequencyValue = Keep THEN @ ELSE e.frequencyValue,
              !.endDate = IF e.endDate = Keep THEN @ ELSE e.endDate]

\* the row of a caller that names an id no stored item has
Unknown(id) ==
    [id |-> id, type |-> GymChoice.type, amount |-> GymChoice.amount,
     currency |-> GymChoice.currency, categoryId |-> GymChoice.categoryId,
     description |-> GymChoice.description, frequency |-> GymChoice.frequency,
     frequencyValue |-> GymChoice.frequencyValue, startDate |-> GymChoice.startDate,
     endDate |-> GymChoice.endDate, lastProcessed |-> NoTime,
     nextDueDate |-> GymChoice.nextDueDate, isActive |-> TRUE, deleted |-> FALSE]

\* rt after "if frequency changed, recalculate next due date"
Recalculated(existing, r) ==
    IF existing.frequency # r.frequency \/ existing.frequencyValue # r.frequencyValue
    THEN [r EXCEPT !.nextDueDate =
             CalculateNextDueDate(r, IF r.lastProcessed # NoTime THEN r.lastProcessed
                                                                 ELSE r.startDate)]
    ELSE r

\* the error Update returns for the row v has validated
UpdateError(v) ==
    IF v.err # "" THEN v.err ELSE GetByIDError(v.row.id)

\* Update: rt.Validate(), repo.GetByID, the recalculation, repo.Update
Update(r) ==
    /\ pc = "idle"
    /\ items' = IF UpdateError(RecurringValidate(r)) = ""
                THEN [items EXCEPT ![r.id] =
                         Recalculated(items[r.id], RecurringValidate(r).row)]
                ELSE items
    /\ op' = [kind |-> "update", id |-> r.id, candidate |-> r, items |-> items,
              now |-> now, err |-> UpdateError(RecurringValidate(r))]
    /\ UNCHANGED <<occurrences, transactions, now, faultsUsed, failed, started, mark>>
    /\ UNCHANGED batchVars

GetByID(id) ==
    /\ pc = "idle"
    /\ op' = Observed("getbyid", id)
    /\ UNCHANGED <<items, occurrences, transactions, now, faultsUsed, failed,
                   started, mark>>
    /\ UNCHANGED batchVars

\* the rows GetUpcoming(days) returns: those of GetActive with
\* rt.NextDueDate.Before(time.Now().AddDate(0, 0, days))
Upcoming(days) ==
    {i \in GetActiveRows : items[i].nextDueDate < AddDate(now, 0, 0, days)}

GetUpcoming(days) ==
    /\ pc = "idle"
    /\ op' = [kind |-> "upcoming", days |-> days, ids |-> Upcoming(days),
              items |-> items, now |-> now, err |-> ""]
    /\ UNCHANGED <<items, occurrences, transactions, now, faultsUsed, failed,
                   started, mark>>
    /\ UNCHANGED batchVars

\* the calls of the list and of the edit form, on stored and on unknown
\* ids, between batches
NextEdit ==
    \/ \E c \in CreateCandidates : Len(items) < MaxEdited /\ CreateOrReject(c)
    \/ \E id \in 1..Len(items), e \in EditChoices : Update(Edited(items[id], e))
    \/ \E id \in (Len(items) + 1)..MaxItems : Update(Unknown(id))
    \/ \E id \in 1..MaxItems : GetByID(id)
    \/ \E days \in DaysChoices : GetUpcoming(days)
    \/ \E id \in 1..MaxItems : Pause(id)
    \/ \E id \in 1..MaxItems : Resume(id)
    \/ \E id \in 1..MaxItems : Delete(id)
    \/ ProcessDueTransactions(now, "none")
    \/ ProcessOccurrence
    \/ UpdateItem
    \/ Return

SpecEdit == Init /\ [][NextEdit]_vars

\* --------------------------------------------- CalculateProjectedAmount
\* for !currentDate.After(endDate) { if rt.EndDate == nil ||
\*     !currentDate.After(*rt.EndDate) { occurrences++ }; currentDate = next }
RECURSIVE CountOccurrences(_, _, _)
CountOccurrences(r, currentDate, endDate) ==
    IF currentDate > endDate THEN 0
    ELSE (IF r.endDate = NoTime \/ currentDate <= r.endDate THEN 1 ELSE 0)
         + CountOccurrences(r, CalculateNextDueDate(r, currentDate), endDate)

ProjectedOccurrences_FromStartDate(r, startDate, endDate) ==
    CountOccurrences(r, FirstNotBefore(r, r.startDate, startDate), endDate)

\* currentDate := rt.NextDueDate, advanced while currentDate.Before(startDate),
\* then counted up to endDate
ProjectedOccurrences(r, startDate, endDate) ==
    CountOccurrences(r, FirstNotBefore(r, r.nextDueDate, startDate), endDate)

\* the end of the loop body for a row r with n occurrences in the period and
\* c the outcome of ConvertToUSD: nothing is converted when n is 0
AddProjected(r, n, c, totalUSD) ==
    IF n = 0 THEN [err |-> FALSE, value |-> totalUSD]
    ELSE IF c.err THEN [err |-> TRUE, value |-> 0]
    ELSE [err |-> FALSE,
          value |-> IF r.type = "income" THEN totalUSD + c.value * n
                                         ELSE totalUSD - c.value * n]

\* one pass of the loop body for row i of the table, with the total so far:
\* rows that GetActive does not return and rows that start after endDate
\* leave the total as it is
ProjectRow(i, totalUSD, startDate, endDate) ==
    IF i \notin GetActiveRows \/ items[i].startDate > endDate
    THEN [err |-> FALSE, value |-> totalUSD]
    ELSE AddProjected(items[i],
                      ProjectedOccurrences(items[i], startDate, endDate),
                      ConvertToUSD(items[i].amount, items[i].currency),
                      totalUSD)

\* the loop over the rows from row i on, res being the outcome so far; a
\* failed conversion returns at once
RECURSIVE ProjectRows(_, _, _, _)
ProjectRows(i, res, startDate, endDate) ==
    IF res.err \/ i > Len(items) THEN res
    ELSE ProjectRows(i + 1, ProjectRow(i, res.value, startDate, endDate),
                     startDate, endDate)

\* what the call returned, with the table and the time it ran on
Projected(startDate, endDate, res) ==
    [kind |-> "project", startDate |-> startDate, endDate |-> endDate,
     items |-> items, now |-> now, err |-> res.err, value |-> res.value]

\* the call is made: its period, and whether the currency service fails
\* while it runs
BeginProjection(startDate, endDate, f) ==
    /\ pc = "idle"
    /\ f # "none" => faultsUsed < MaxFaults
    /\ faultsUsed' = IF f = "none" THEN faultsUsed ELSE faultsUsed + 1
    /\ pc' = "projecting"
    /\ fault' = f
    /\ op' = [kind |-> "projecting", startDate |-> startDate, endDate |-> endDate]
    /\ UNCHANGED <<items, occurrences, transactions, now, failed, started, mark>>
    /\ UNCHANGED <<asOf, dueTransactions, idx, rt, processed, result, log,
                   handled, last, txBefore, repeat>>

\* the call reads the rows and returns the total, or the conversion error
CalculateProjectedAmount ==
    /\ pc = "projecting"
    /\ op' = Projected(op.startDate, op.endDate,
                       ProjectRows(1, [err |-> FALSE, value |-> 0],
                                   op.startDate, op.endDate))
    /\ pc' = "idle"
    /\ fault' = "none"
    /\ UNCHANGED <<items, occurrences, transactions, now, faultsUsed, failed,
                   started, mark>>
    /\ UNCHANGED <<asOf, dueTransactions, idx, rt, processed, result, log,
                   handled, last, txBefore, repeat>>

NextProjection ==
    \/ \E c \in LifeCandidates : Create(c)
    \/ \E id \in 1..Len(items) : Pause(id)
    \/ \E f \in {"none", "convert"} : ProcessDueTransactions(now, f)
    \/ ProcessOccurrence
    \/ UpdateItem
    \/ Return
    \/ \E w \in ProjectionChoices, f \in {"none", "convert"} :
          BeginProjection(w.startDate, w.endDate, f)
    \/ CalculateProjectedAmount

SpecProjection == Init /\ [][NextProjection]_vars

\* ------------------------------------------- calls made during a batch
\* the service holds no lock and opens no database transaction: a call of
\* another caller runs between two steps of a running ProcessDueTransactions
InFlight == pc \in {"loop", "update"}

\* the items the running batch has loaded and not yet written back
Pending == {dueTransactions[k].id : k \in idx..Len(dueTransactions)}

\* Pause(id) between two steps of the batch
PauseDuringBatch(id) ==
    /\ InFlight
    /\ items' = Deactivate(id)
    /\ op' = [kind |-> "pause", id |-> id, items |-> items, now |-> now,
              pending |-> id \in Pending]
    /\ mark' = IF Exists(id) THEN [mark EXCEPT ![id] = Paused(id)] ELSE mark
    /\ UNCHANGED <<occurrences, transactions, now, faultsUsed, failed, started>>
    /\ UNCHANGED batchVars

CalculateProjectedAmountDuringBatch_SaveCursor(startDate, endDate) ==
    /\ InFlight
    /\ op' = Projected(startDate, endDate,
                       ProjectRows(1, [err |-> FALSE, value |-> 0],
                                   startDate, endDate))
    /\ items' = [i \in 1..Len(items) |->
                   IF i \in GetActiveRows
                   THEN [items[i] EXCEPT !.nextDueDate =
                            FirstNotBefore(items[i], items[i].nextDueDate, startDate)]
                   ELSE items[i]]
    /\ UNCHANGED <<occurrences, transactions, now, faultsUsed, failed,
                   started, mark>>
    /\ UNCHANGED batchVars

\* CalculateProjectedAmount between two steps of the batch: one GetActive
\* query, then the computation on the rows it returned
CalculateProjectedAmountDuringBatch(startDate, endDate) ==
    /\ InFlight
    /\ op' = Projected(startDate, endDate,
                       ProjectRows(1, [err |-> FALSE, value |-> 0],
                                   startDate, endDate))
    /\ UNCHANGED <<items, occurrences, transactions, now, faultsUsed, failed,
                   started, mark>>
    /\ UNCHANGED batchVars

NextConcurrent ==
    \/ \E c \in LifeCandidates : Create(c)
    \/ ProcessDueTransactions(now, "none")
    \/ ProcessOccurrence
    \/ UpdateItem
    \/ Return
    \/ \E id \in 1..Len(items) : PauseDuringBatch(id)
    \/ \E w \in ProjectionChoices :
          CalculateProjectedAmountDuringBatch(w.startDate, w.endDate)
    \/ \E w \in ProjectionChoices : BeginProjection(w.startDate, w.endDate, "none")
    \/ CalculateProjectedAmount

SpecConcurrent == Init /\ [][NextConcurrent]_vars

\* ------------------------------------------------- CalculateNextDueDate
\* the due-date computation on its own: a frequency, a FrequencyValue and
\* a date, then rt.NextDueDate = rt.CalculateNextDueDate(rt.NextDueDate)
InitNextDue ==
    /\ op \in {[kind |-> "input", frequency |-> f, frequencyValue |-> v,
                 from |-> d, nextDueDate |-> d, steps |-> 0] :
                   f \in Frequencies, v \in 1..MaxFrequencyValue, d \in DateChoices}
    /\ items = <<>>
    /\ occurrences = <<>>
    /\ transactions = <<>>
    /\ now = At(2024, 3, 2, 1)
    /\ fault = "none"
    /\ faultsUsed = 0
    /\ pc = "idle"
    /\ asOf = NoTime
    /\ dueTransactions = <<>>
    /\ idx = 0
    /\ rt = NoRow
    /\ processed = 0
    /\ result = [count |-> 0, err |-> FALSE]
    /\ log = {}
    /\ handled = <<>>
    /\ last = NoLast
    /\ txBefore = 0
    /\ failed = <<>>
    /\ started = FALSE
    /\ repeat = FALSE
    /\ mark = [i \in 1..MaxItems |-> NoMark]

AdvanceNextDueDate ==
    /\ op.kind \in {"input", "nextDue"}
    /\ op.steps < MaxSteps
    /\ op' = [op EXCEPT !.kind = "nextDue",
                        !.from = op.nextDueDate,
                        !.nextDueDate = CalculateNextDueDate(op, op.nextDueDate),
                        !.steps = op.steps + 1]
    /\ UNCHANGED <<items, occurrences, transactions, now, faultsUsed, failed,
                   started, mark>>
    /\ UNCHANGED batchVars

SpecNextDue == InitNextDue /\ [][AdvanceNextDueDate]_vars

\* ------------------------------------------------------------------ claims
LogIds == {e.id : e \in log}
ProcessingFailures == {e \in log : e.kind \in {"lookup", "convert", "create"}}
DueIds == {dueTransactions[k].id : k \in 1..Len(dueTransactions)}

\* d, NextDueDate(d), NextDueDate(NextDueDate(d)), ... as far as a
RECURSIVE OccurrencesUpTo(_, _, _)
OccurrencesUpTo(r, d, a) ==
    IF d > a THEN <<>>
    ELSE <<d>> \o OccurrencesUpTo(r, CalculateNextDueDate(r, d), a)

\* the first date of that sequence that lies after a
RECURSIVE FirstAfter(_, _, _)
FirstAfter(r, d, a) ==
    IF d > a THEN d ELSE FirstAfter(r, CalculateNextDueDate(r, d), a)

\* the dates of the transactions the running call has inserted for item id
BatchTxDates(id) ==
    LET new  == SubSeq(transactions, txBefore + 1, Len(transactions))
        mine == SelectSeq(new, LAMBDA t : t.rid = id)
    IN  [k \in 1..Len(mine) |-> mine[k].date]

\* the override rows of the occurrence the latest iteration handled
LastOverrides == {occurrences[k] : k \in OccurrenceMatches(last.id, last.date)}
LastHandled == last.kind \notin {"-", "failed"}

\* the occurrences of item i that the stored nextDueDate says are behind it
StoredAsHandled(i) ==
    IF i \notin DueIds THEN <<>>
    ELSE LET r == CHOOSE x \in Range(dueTransactions) : x.id = i
         IN  SelectSeq(OccurrencesUpTo(r, r.nextDueDate, asOf),
                       LAMBDA d : d < items[i].nextDueDate)

\* C1: a call of ProcessDueTransactions(asOf) made right after the same call
\* has returned, nothing having changed in between, processes no occurrence
\* and creates no transaction.
C1_SecondCallProcessesNothing ==
    repeat => processed = 0 /\ Len(transactions) = txBefore

\* C2: whenever no call is running, every generated transaction of an item
\* is dated before the item's stored nextDueDate: the insert of the
\* transaction and the advance of nextDueDate are never seen one without
\* the other.
C2_TransactionAndAdvanceTogether ==
    pc = "idle" =>
        \A k \in 1..Len(transactions) :
            items[transactions[k].rid].nextDueDate > transactions[k].date

\* C8: when the processing of some item failed in the call, the error part
\* of the returned result is set.
C8_FailuresAreReturned ==
    pc = "done" /\ log # {} => result.err

\* C10: after a call whose asOf lies after the end date of an item that is
\* still pending (nextDueDate <= asOf), the item is stored inactive.
C10_EndedItemDeactivated ==
    pc = "done" /\ ~result.err =>
        \A i \in 1..Len(items) :
            (items[i].endDate # NoTime /\ asOf > items[i].endDate
                /\ items[i].nextDueDate <= asOf) => ~items[i].isActive

\* C3: a call without failures handles, for every item it found due, every
\* occurrence d0 = nextDueDate, d1 = NextDueDate(d0), ... that is <= asOf,
\* once and in increasing order, inserts one transaction dated dk per
\* occurrence that is not skipped, leaves nextDueDate at the first dk > asOf,
\* leaves no active item with an end date unset or >= asOf due, and returns
\* the number of occurrences handled over all items.
C3_CatchUpComplete ==
    (pc = "done" /\ ~result.err /\ log = {}) =>
        /\ \A k \in 1..Len(dueTransactions) :
              LET r == dueTransactions[k]
              IN  /\ handled[r.id] = OccurrencesUpTo(r, r.nextDueDate, asOf)
                  /\ \A i, j \in 1..Len(handled[r.id]) :
                        i < j => handled[r.id][i] < handled[r.id][j]
                  /\ items[r.id].nextDueDate = FirstAfter(r, r.nextDueDate, asOf)
                  /\ BatchTxDates(r.id) =
                        SelectSeq(handled[r.id],
                                  LAMBDA d : GetOccurrence(r.id, d).action # "skip")
        /\ \A i \in 1..Len(items) :
              (items[i].isActive /\ (items[i].endDate = NoTime \/ items[i].endDate >= asOf))
                  => items[i].nextDueDate > asOf
        /\ \A i \in 1..Len(items) : i \notin DueIds => handled[i] = <<>>
        /\ result.count = SumLen(handled, 1..Len(items))

C3_Witness ==
    /\ pc = "done" /\ ~result.err /\ log = {}
    /\ Len(dueTransactions) = 2
    /\ \E i \in 1..Len(items) : Len(handled[i]) >= 3
    /\ result.count >= 4

\* C4: an occurrence without override that is processed inserts exactly one
\* transaction, with the type, amount, currency, category and description
\* of the item, dated at the due date and referring to the item.
C4_PlainOccurrence ==
    (LastHandled /\ LastOverrides = {}) =>
        /\ last.txLenAfter = last.txLenBefore + 1
        /\ LET tx == transactions[last.txLenAfter]
               it == items[last.id]
           IN  /\ tx.type = it.type
               /\ tx.amount = it.amount
               /\ tx.currency = it.currency
               /\ tx.categoryId = it.categoryId
               /\ tx.description = it.description
               /\ tx.date = last.date
               /\ tx.rid = last.id

C4_Witness ==
    /\ LastHandled /\ LastOverrides = {}
    /\ Len(transactions) = last.txLenAfter
    /\ transactions[last.txLenAfter].description = "salary"

\* C5: an occurrence with a Skip override that is processed inserts no
\* transaction (none exists for the item at that date), advances
\* nextDueDate by one period past the date and adds one to the count.
C5_SkippedOccurrence ==
    (LastHandled /\ \E o \in LastOverrides : LastOverrides = {o} /\ o.action = "skip") =>
        /\ last.txLenAfter = last.txLenBefore
        /\ \A k \in 1..Len(transactions) :
              ~(transactions[k].rid = last.id /\ transactions[k].date = last.date)
        /\ last.nextDueAfter = CalculateNextDueDate(items[last.id], last.date)
        /\ last.nextDueAfter > last.date
        /\ last.processedAfter = last.processedBefore + 1

C5_Witness ==
    /\ LastHandled
    /\ \E o \in LastOverrides : o.action = "skip"
    /\ last.processedAfter = 1
    /\ transactions = <<>>

\* C6: an occurrence with a Modify override that is processed inserts
\* exactly one transaction; the amount and the description are those of the
\* override where it gives them and those of the item where it does not,
\* and every other field is the item's.
C6_ModifiedOccurrence ==
    (LastHandled /\ \E o \in LastOverrides : LastOverrides = {o} /\ o.action = "modify") =>
        /\ last.txLenAfter = last.txLenBefore + 1
        /\ LET o  == CHOOSE x \in LastOverrides : TRUE
               tx == transactions[last.txLenAfter]
               it == items[last.id]
           IN  /\ tx.amount = IF o.modifiedAmount # NilAmount
                               THEN o.modifiedAmount ELSE it.amount
               /\ tx.description = IF o.modifiedDescription # NilString
                                    THEN o.modifiedDescription ELSE it.description
               /\ tx.type = it.type
               /\ tx.currency = it.currency
               /\ tx.categoryId = it.categoryId
               /\ tx.date = last.date
               /\ tx.rid = last.id

C6_Witness ==
    /\ LastHandled
    /\ \E o \in LastOverrides : o.action = "modify" /\ o.modifiedAmount = NilAmount
    /\ Len(transactions) = last.txLenAfter
    /\ transactions[last.txLenAfter].description = "bonus"
    /\ transactions[last.txLenAfter].amount = items[last.id].amount

\* C7: when the lookup, the conversion or the insert fails for an occurrence
\* of an item (the item writes succeeding), the call still runs through its
\* whole list and returns; the failed item is stored active with nextDueDate
\* at the failed occurrence, everything handled for it lies before that
\* occurrence, every other due item is processed completely, and the count
\* is the number of occurrences that lie before the stored nextDueDate.
C7_FailureIsolation ==
    (pc = "done" /\ ProcessingFailures # {} /\ log = ProcessingFailures) =>
        /\ ~result.err
        /\ idx = Len(dueTransactions) + 1
        /\ \A e \in ProcessingFailures :
              /\ items[e.id].nextDueDate = e.date
              /\ items[e.id].isActive
              /\ \A j \in 1..Len(handled[e.id]) : handled[e.id][j] < e.date
        /\ \A k \in 1..Len(dueTransactions) :
              LET r == dueTransactions[k]
              IN  r.id \notin LogIds =>
                    /\ handled[r.id] = OccurrencesUpTo(r, r.nextDueDate, asOf)
                    /\ ~IsDue(items[r.id], asOf)
        /\ result.count = SumLen([i \in 1..Len(items) |-> StoredAsHandled(i)], 1..Len(items))

C7_Witness ==
    /\ pc = "done" /\ ProcessingFailures # {} /\ log = ProcessingFailures
    /\ \E e \in ProcessingFailures : handled[e.id] # <<>>
    /\ \E i \in DueIds : i \notin LogIds /\ Len(handled[i]) >= 2

\* C9: an item with an occurrence that failed and has not been processed
\* since stays stored active with nextDueDate no later than that occurrence,
\* so GetDue of every later asOf within its end date returns it; and a later
\* call that reaches up to the failed occurrence, finds the item due and
\* in which nothing fails for it processes the failed occurrence and leaves
\* the item no longer due.  In a call in which no collaborator fails the
\* only occurrences that fail are those whose Modify override replaces the
\* amount by one that Transaction.Validate rejects.
C9_FailedOccurrenceRetried ==
    /\ \A i \in 1..Len(failed) :
          (failed[i].date # NoTime /\ ~failed[i].resolved) =>
              /\ items[i].isActive
              /\ items[i].nextDueDate <= failed[i].date
              /\ IsDue(items[i], failed[i].asOf)
              /\ \A a \in AsOfChoices :
                    (a >= failed[i].date /\ (items[i].endDate = NoTime \/ items[i].endDate >= a))
                        => i \in GetDueRows(a)
    /\ (pc = "done" /\ ~result.err) =>
          \A i \in DueIds :
              (failed[i].date # NoTime /\ failed[i].date <= asOf /\ i \notin LogIds) =>
                  /\ failed[i].resolved
                  /\ \E j \in 1..Len(handled[i]) : handled[i][j] = failed[i].date
                  /\ ~IsDue(items[i], asOf)
    /\ (pc = "done" /\ fault = "none") =>
          \A e \in log :
              /\ e.kind = "create"
              /\ \E o \in {occurrences[k] : k \in OccurrenceMatches(e.id, e.date)} :
                    o.action = "modify" /\ o.modifiedAmount # NilAmount /\ o.modifiedAmount <= 0

C9_Witness ==
    /\ pc = "done" /\ ~result.err
    /\ \E i \in DueIds :
          /\ i \notin LogIds
          /\ failed[i].resolved
          /\ failed[i].asOf < asOf
          /\ Len(handled[i]) >= 2

\* C11: an item whose end date lies before asOf is not loaded by the call,
\* has no occurrence handled, adds nothing to the count and gets no
\* transaction, even when its nextDueDate <= asOf; and no generated
\* transaction of an item with an end date is dated after that end date.
C11_EndedItemNotProcessed ==
    /\ pc \in {"loop", "update", "done"} =>
          /\ \A i \in 1..Len(items) :
                (items[i].endDate # NoTime /\ asOf > items[i].endDate) =>
                    /\ i \notin DueIds
                    /\ handled[i] = <<>>
                    /\ BatchTxDates(i) = <<>>
          /\ processed = SumLen(handled, 1..Len(items))
    /\ \A k \in 1..Len(transactions) :
          items[transactions[k].rid].endDate # NoTime =>
              transactions[k].date <= items[transactions[k].rid].endDate

C11_Witness ==
    /\ pc = "done" /\ ~result.err
    /\ result.count >= 1
    /\ \E i \in 1..Len(items) :
          /\ items[i].isActive
          /\ items[i].endDate # NoTime /\ asOf > items[i].endDate
          /\ items[i].nextDueDate <= asOf

\* C12: Pause(id) sets isActive = false and changes nothing else of the
\* item, of the other items, of the overrides and of the transactions; and
\* as long as the item stays paused its nextDueDate is the one it was paused
\* with, no batch loads it and no transaction is generated for it.
C12_PausePreservesSchedule ==
    /\ (op.kind = "pause" /\ ~op.items[op.id].deleted) =>
          /\ items = [op.items EXCEPT ![op.id].isActive = FALSE]
          /\ occurrences = op.occurrences
          /\ transactions = op.transactions
    /\ \A i \in 1..Len(items) :
          mark[i].kind = "paused" =>
              /\ ~items[i].isActive
              /\ items[i].nextDueDate = mark[i].nextDueDate
              /\ \A k \in 1..Len(transactions) :
                    k > mark[i].txLen => transactions[k].rid # i
              /\ pc # "idle" => i \notin DueIds

C12_Witness ==
    /\ pc = "done" /\ result.count >= 1
    /\ \E i \in 1..Len(items) :
          /\ mark[i].kind = "paused"
          /\ mark[i].at < asOf
          /\ items[i].nextDueDate <= mark[i].at
          /\ items[i].endDate = NoTime

\* C13: after Resume(id) at time now of an item with nextDueDate <= now the
\* nextDueDate is the first date after now of the sequence nextDueDate,
\* NextDueDate(nextDueDate), ... that starts at the nextDueDate the item
\* had before; an item with nextDueDate > now keeps its nextDueDate.
C13_ResumeFromPrePause ==
    (op.kind = "resume" /\ ~op.items[op.id].deleted) =>
        LET b == op.items[op.id]
        IN  items[op.id].nextDueDate =
                IF b.nextDueDate <= op.now
                THEN FirstAfter(b, b.nextDueDate, op.now)
                ELSE b.nextDueDate

\* C14: Resume(id) inserts no transaction and no override and leaves the
\* item active; and every transaction generated for the item after the
\* Resume is dated at the resume time or later, so no occurrence that was
\* missed before the Resume is ever billed.
C14_MissedBillingForgiven ==
    /\ (op.kind = "resume" /\ ~op.items[op.id].deleted) =>
          /\ transactions = op.transactions
          /\ occurrences = op.occurrences
          /\ items[op.id].isActive
    /\ \A i \in 1..Len(items) :
          mark[i].kind = "resumed" =>
              \A k \in 1..Len(transactions) :
                  (k > mark[i].txLen /\ transactions[k].rid = i) =>
                      transactions[k].date >= mark[i].at

C14_Witness ==
    \E i \in 1..Len(items) :
        /\ mark[i].kind = "resumed"
        /\ mark[i].nextDueDate < mark[i].at
        /\ \E k \in 1..Len(transactions) :
              k > mark[i].txLen /\ transactions[k].rid = i

\* C15: Delete(id) removes the item when no generated transaction refers to
\* it and otherwise only sets isActive = false; in both cases the
\* transactions are left as they are; and no removed item ever has a
\* generated transaction.
C15_DeleteKeepsHistory ==
    /\ (op.kind = "delete" /\ ~op.items[op.id].deleted) =>
          LET n == Cardinality({k \in 1..Len(op.transactions) :
                                   op.transactions[k].rid = op.id})
          IN  /\ transactions = op.transactions
              /\ n = 0 => items = [op.items EXCEPT ![op.id].deleted = TRUE]
              /\ n > 0 => items = [op.items EXCEPT ![op.id].isActive = FALSE]
    /\ \A i \in 1..Len(items) :
          items[i].deleted => \A k \in 1..Len(transactions) : transactions[k].rid # i

C15_Witness ==
    /\ op.kind = "delete"
    /\ op.items[op.id].isActive
    /\ ~items[op.id].deleted /\ ~items[op.id].isActive
    /\ \E k \in 1..Len(transactions) : transactions[k].rid = op.id
    /\ \E j \in 1..Len(items) : items[j].deleted

\* C16: at most one override is stored for an item and a calendar date, and
\* the override a batch applies to an occurrence is the one written last
\* for that item and date.
C16_OverrideLastWriteWins ==
    /\ \A j, k \in 1..Len(occurrences) :
          (j < k /\ occurrences[j].rid = occurrences[k].rid)
              => DateOf(occurrences[j].date) # DateOf(occurrences[k].date)
    /\ (LastHandled /\ OccurrenceMatches(last.id, last.date) # {}) =>
          LET m == OccurrenceMatches(last.id, last.date)
              latest == occurrences[CHOOSE k \in m : \A j \in m : j <= k]
          IN  /\ last.kind = latest.action
              /\ latest.action = "skip" => last.txLenAfter = last.txLenBefore
              /\ latest.action = "modify" =>
                    /\ last.txLenAfter = last.txLenBefore + 1
                    /\ latest.modifiedAmount # NilAmount =>
                          transactions[last.txLenAfter].amount = latest.modifiedAmount
                    /\ latest.modifiedDescription # NilString =>
                          transactions[last.txLenAfter].description = latest.modifiedDescription

\* two timestamps that fall on the same day of the calendar
OnSameCalendarDate(a, b) ==
    CivilFromDays(a \div TicksPerDay) = CivilFromDays(b \div TicksPerDay)

\* C17: the override applied to a processed occurrence of an item is one
\* recorded for that item on the calendar date of the due date, whatever
\* its time of day: a skip leaves no transaction, a modification changes
\* the transaction; and an occurrence with no override of its item on its
\* calendar date yields the plain transaction, whatever is recorded for
\* other dates or other items.
C17_OverrideByCalendarDate ==
    LastHandled =>
        LET rows == {k \in 1..Len(occurrences) :
                        /\ occurrences[k].rid = last.id
                        /\ OnSameCalendarDate(occurrences[k].date, last.date)}
            actions == {occurrences[k].action : k \in rows}
            it == items[last.id]
            tx == transactions[last.txLenAfter]
        IN  /\ rows = {} =>
                  /\ last.kind = "none"
                  /\ last.txLenAfter = last.txLenBefore + 1
                  /\ tx.amount = it.amount /\ tx.description = it.description
            /\ rows # {} => last.kind \in actions
            /\ actions = {"skip"} => last.txLenAfter = last.txLenBefore
            /\ actions = {"modify"} =>
                  /\ last.txLenAfter = last.txLenBefore + 1
                  /\ tx.amount # it.amount \/ tx.description # it.description

C17_Witness ==
    /\ LastHandled
    /\ last.kind = "skip"
    /\ Len(items) = 2
    /\ \E k \in 1..Len(occurrences) :
          /\ occurrences[k].rid = last.id
          /\ occurrences[k].date # last.date
          /\ OnSameCalendarDate(occurrences[k].date, last.date)

\* C18: for every frequency among daily, weekly, monthly and yearly, every
\* FrequencyValue >= 1 and every date, CalculateNextDueDate returns a date
\* strictly after the date it is given, so each step
\* NextDueDate = CalculateNextDueDate(NextDueDate) of the catch-up moves
\* NextDueDate strictly forward.
C18_NextDueDateAdvances ==
    op.kind = "nextDue" =>
        /\ op.nextDueDate > op.from
        /\ DateOf(op.nextDueDate) > DateOf(op.from)

C18_Witness ==
    /\ op.kind = "nextDue"
    /\ op.frequency = "monthly" /\ op.frequencyValue = 1
    /\ op.from = At(2024, 1, 31, 1)
    /\ op.nextDueDate = At(2024, 3, 2, 1)

\* the dates of the sequence d, NextDueDate(d), ... of item r that lie in
\* the period from startDate to endDate and not after the item's end date
CountedDates(r, startDate, endDate) ==
    LET seq == OccurrencesUpTo(r, r.nextDueDate, endDate)
    IN  {seq[k] : k \in {j \in 1..Len(seq) :
                            /\ startDate <= seq[j]
                            /\ r.endDate = NoTime \/ seq[j] <= r.endDate}}

\* sign * amountUSD * n of one item
Contribution(r, startDate, endDate) ==
    LET usd == IF r.currency = "USD" THEN r.amount
               ELSE r.amount \div GetExchangeRate(r.currency)
        n   == Cardinality(CountedDates(r, startDate, endDate))
    IN  IF r.type = "income" THEN usd * n ELSE 0 - usd * n

RECURSIVE SumOver(_, _, _, _)
SumOver(S, rows, startDate, endDate) ==
    IF S = {} THEN 0
    ELSE LET i == CHOOSE x \in S : TRUE
         IN  Contribution(rows[i], startDate, endDate)
             + SumOver(S \ {i}, rows, startDate, endDate)

\* C19: CalculateProjectedAmount(start, end) is the sum over the active
\* items with startDate <= end of sign * amountUSD * n, with sign + for
\* income and - for expense and n the number of dates c of the sequence
\* nextDueDate, NextDueDate(nextDueDate), ... with start <= c <= end and
\* c not after the item's endDate; paused items contribute nothing.
C19_ProjectionIsSignedSum ==
    (op.kind = "project" /\ ~op.err) =>
        op.value = SumOver({i \in 1..Len(op.items) :
                               /\ op.items[i].isActive
                               /\ ~op.items[i].deleted
                               /\ op.items[i].startDate <= op.endDate},
                           op.items, op.startDate, op.endDate)

C19_Witness ==
    /\ op.kind = "project" /\ ~op.err /\ op.value # 0
    /\ \E i, j \in 1..Len(op.items) :
          /\ op.items[i].isActive
          /\ op.items[i].nextDueDate < op.startDate
          /\ op.items[i].endDate # NoTime /\ op.items[i].endDate < op.endDate
          /\ CountedDates(op.items[i], op.startDate, op.endDate) # {}
          /\ ~op.items[j].isActive
          /\ CountedDates(op.items[j], op.startDate, op.endDate) # {}

\* C20: with a monthly income of 5000 USD and a monthly expense of 1500
\* USD, both started six months before now and due at now,
\* CalculateProjectedAmount(now, now + 3 months) is (5000 - 1500) * 3 =
\* 10500: each monthly item contributes exactly 3 occurrences.
C20_ThreeMonthsThreeOccurrences ==
    ( /\ op.kind = "project" /\ ~op.err
      /\ op.startDate = op.now
      /\ op.endDate = AddDate(op.now, 0, 3, 0)
      /\ Len(op.items) = 2
      /\ \A i \in 1..2 :
            /\ op.items[i].isActive
            /\ op.items[i].frequency = "monthly" /\ op.items[i].frequencyValue = 1
            /\ op.items[i].currency = "USD"
            /\ AddDate(op.items[i].startDate, 0, 6, 0) = op.now
            /\ op.items[i].nextDueDate = op.now
      /\ \E i, j \in 1..2 :
            /\ op.items[i].type = "income" /\ op.items[i].amount = 5000
            /\ op.items[j].type = "expense" /\ op.items[j].amount = 1500 )
    => /\ op.value = 10500
       /\ \A i \in 1..2 :
             ProjectedOccurrences(op.items[i], op.startDate, op.endDate) = 3

\* C21: CalculateProjectedAmount is read-only: a call, also one made while
\* ProcessDueTransactions is running, leaves every row of the items table
\* (nextDueDate, lastProcessed, isActive and the rest), the override table
\* and the generated transactions as they are.
C21_ProjectionReadOnly ==
    [][(pc = "projecting" \/ (op' # op /\ op'.kind \in {"projecting", "project"}))
         => UNCHANGED <<items, occurrences, transactions>>]_vars

C21_Witness ==
    /\ op.kind = "project" /\ ~op.err /\ op.value # 0
    /\ InFlight
    /\ Len(transactions) > txBefore
    /\ op.items = items
    /\ \E i \in 1..Len(items) : items[i].nextDueDate < op.startDate

\* C27: a Pause(id) that commits while ProcessDueTransactions is running,
\* after the batch has loaded item id and before it has written it back,
\* is not lost: when the batch has completed the item is stored with
\* isActive = false.
C27_PauseDuringBatchKept ==
    (pc = "done" /\ op.kind = "pause" /\ op.pending) => ~items[op.id].isActive

\* C22: GetUpcoming(days) returns exactly the active items whose
\* nextDueDate lies in the closed interval from now to now + days: items
\* due after now + days and items due before now are not returned.
C22_UpcomingWithinWindow ==
    op.kind = "upcoming" =>
        op.ids = {i \in 1..Len(op.items) :
                     /\ op.items[i].isActive /\ ~op.items[i].deleted
                     /\ op.now <= op.items[i].nextDueDate
                     /\ op.items[i].nextDueDate <= AddDate(op.now, 0, 0, op.days)}

\* a candidate with a bad amount, a bad frequency or a bad date ordering
BadCandidate(c) ==
    \/ c.amount <= 0
    \/ c.frequency \notin Frequencies
    \/ c.frequencyValue < 1
    \/ c.endDate # NoTime /\ c.endDate <= c.startDate

\* id names no stored item of the table t
UnknownIn(t, id) == id \notin 1..Len(t) \/ t[id].deleted

\* C23: Create or Update of a candidate with amount <= 0, with an unknown
\* frequency or a frequencyValue < 1, or with an endDate that is not
\* strictly after startDate returns an error and leaves the stored items
\* as they were.
C23_BadCandidateRejected ==
    (op.kind \in {"create", "update"} /\ BadCandidate(op.candidate)) =>
        /\ op.err # ""
        /\ items = op.items

\* C24: every item stored by a successful Create has amount > 0,
\* frequencyValue >= 1 and nextDueDate >= startDate, and nextDueDate =
\* startDate when the caller left nextDueDate unset.
C24_CreatedItemWellFormed ==
    (op.kind = "create" /\ op.err = "") =>
        /\ items[op.id].amount > 0
        /\ items[op.id].frequencyValue >= 1
        /\ items[op.id].nextDueDate >= items[op.id].startDate
        /\ op.candidate.nextDueDate = NoTime =>
               items[op.id].nextDueDate = items[op.id].startDate

\* C25: GetByID, Update, Delete, Pause and Resume called with an id that
\* names no stored item return an error and change no state.
C25_UnknownIdIsAnError ==
    ( /\ op.kind \in {"getbyid", "update", "delete", "pause", "resume"}
      /\ UnknownIn(op.items, op.id) ) =>
        /\ op.err # ""
        /\ items = op.items

\* C26: Update never moves an item's nextDueDate backwards: after a
\* successful Update, also one that changes frequency or frequencyValue,
\* nextDueDate is not before its value before the call.
C26_UpdateKeepsNextDueDate ==
    (op.kind = "update" /\ op.err = "") =>
        items[op.id].nextDueDate >= op.items[op.id].nextDueDate

\* C30: every handled occurrence, skipped or generated, sets lastProcessed
\* together with the advance of nextDueDate: after a call without failures
\* every item of which at least one occurrence was handled is stored with
\* lastProcessed equal to the time of the processing.
C30_HandledSetsLastProcessed ==
    (pc = "done" /\ ~result.err /\ log = {}) =>
        \A i \in 1..Len(items) :
            (i \in DueIds /\ handled[i] # <<>>) => items[i].lastProcessed = now

\* row i as the running call found it: the row GetDue loaded, or the stored
\* row when GetDue did not return it and the call has left it alone
RowAtLoad(i) ==
    IF i \in DueIds
    THEN dueTransactions[CHOOSE k \in 1..Len(dueTransactions) :
                            dueTransactions[k].id = i]
    ELSE items[i]

\* the occurrences CalculateProjectedAmount(startDate, endDate) counts for
\* row r: none when the row starts after endDate
ProjectionCount(r, startDate, endDate) ==
    IF r.startDate > endDate THEN 0
    ELSE ProjectedOccurrences(r, startDate, endDate)

\* C29: projection agrees with generation: for an item that is active and
\* has no override, and a period start not after its nextDueDate, the
\* number of occurrences CalculateProjectedAmount(start, end) counts equals
\* the number of transactions a ProcessDueTransactions(end) without
\* failures, run from the same state, generates for the item, also when the
\* item's endDate lies inside the period.
C29_ProjectionAgreesWithGeneration ==
    (pc = "done" /\ ~result.err /\ log = {}) =>
        \A i \in 1..Len(items) :
            (/\ RowAtLoad(i).isActive /\ ~RowAtLoad(i).deleted
             /\ \A k \in 1..Len(occurrences) : occurrences[k].rid # i) =>
                \A start \in {RowAtLoad(i).startDate, RowAtLoad(i).nextDueDate} :
                    start <= RowAtLoad(i).nextDueDate =>
                        ProjectionCount(RowAtLoad(i), start, asOf)
                            = Len(BatchTxDates(i))

\* ------------------------------------------- the table as the batch finds it
\* ProcessDueTransactions works on whatever rows GetDue scans from the table;
\* the frequency column is a varchar(20) without a check constraint, and
\* CalculateNextDueDate has a default branch for a value that is none of the
\* four kinds. The rows found at start: rows that Validate accepts, and the
\* same rows with such a frequency.
StoredChoices ==
    {RecurringValidate(c).row : c \in Candidates}
    \cup {[RecurringValidate(c).row EXCEPT !.frequency = "hourly"] : c \in Candidates}

InitStored ==
    /\ \E n \in 1..MaxItems : \E f \in [1..n -> StoredChoices] :
          items = [i \in 1..n |-> [f[i] EXCEPT !.id = i]]
    /\ occurrences = <<>>
    /\ transactions = <<>>
    /\ now = At(2024, 3, 2, 1)
    /\ fault = "none"
    /\ faultsUsed = 0
    /\ pc = "idle"
    /\ asOf = NoTime
    /\ dueTransactions = <<>>
    /\ idx = 0
    /\ rt = NoRow
    /\ processed = 0
    /\ result = [count |-> 0, err |-> FALSE]
    /\ log = {}
    /\ handled = <<>>
    /\ last = NoLast
    /\ txBefore = 0
    /\ failed = [i \in 1..Len(items) |-> NoFailure]
    /\ started = FALSE
    /\ repeat = FALSE
    /\ op = NoOp
    /\ mark = [i \in 1..MaxItems |-> NoMark]

\* how often the running call has handled date d of item i
TimesHandled(i, d) ==
    Cardinality({k \in 1..Len(handled[i]) : handled[i][k] = d})

\* the batch on those rows; the loop is followed as long as it has handled
\* the date it is about to handle at most MaxIterations times
NextStored ==
    \/ \E a \in AsOfChoices : ProcessDueTransactions(a, "none")
    \/ /\ pc = "loop" => TimesHandled(rt.id, rt.nextDueDate) <= MaxIterations
       /\ ProcessOccurrence
    \/ UpdateItem
    \/ Return

SpecStored == InitStored /\ [][NextStored]_vars

\* C28: the catch-up loop of every item ends: for an item with one of the
\* four frequencies every iteration handles a later date than the one
\* before, and for any item an iteration cap ends the call before one date
\* has been handled more than MaxIterations times.
C28_CatchUpLoopCapped ==
    pc \in {"loop", "update", "done"} =>
        \A i \in 1..Len(items) :
            /\ items[i].frequency \in Frequencies =>
                  \A k \in 2..Len(handled[i]) : handled[i][k - 1] < handled[i][k]
            /\ \A k \in 1..Len(handled[i]) :
                  TimesHandled(i, handled[i][k]) <= MaxIterations
====
